---- MODULE Spec2Model ----
(***************************************************************************)
(* Model of blog_pipeline.py: the one-way synchronisation of a source tree *)
(* of Markdown documents and images into a hierarchical content tree and a *)
(* flat images directory, with the two text rewrite passes.                *)
(*                                                                         *)
(* A path is a sequence of names relative to its root; <<>> is the root.   *)
(* A tree maps every path of the universe to a node; a node is a record    *)
(* [kind, mtime, data].  A text is a sequence of items, one per line.      *)
(***************************************************************************)
EXTENDS Integers, Sequences, FiniteSets, TLC

\* ------------------------------------------------------------------------
\* Bounds of the model
\* ------------------------------------------------------------------------
MaxTime == 2
MaxNodes == 3
MaxFail == 1
MaxRuns == 2

\* ------------------------------------------------------------------------
\* Names, extensions, paths
\* ------------------------------------------------------------------------
Names == {"d", "a.md", "p.JPG"}

Paths == {<<n>> : n \in Names} \cup {<<m, n>> : m \in Names, n \in Names}

Root == <<>>

\* os.path.splitext(name)[1], as spelled
SplitExt(name) ==
    CASE name = "a.md" -> ".md"
      [] name = "p.JPG" -> ".JPG"
      [] name = "p%20q.JPG" -> ".JPG"
      [] name = "p q.JPG" -> ".JPG"
      [] OTHER -> ""

\* str.lower() on an extension
Lower(ext) ==
    CASE ext = ".JPG" -> ".jpg"
      [] ext = ".MD" -> ".md"
      [] OTHER -> ext

IMAGE_EXTENSIONS == {".jpg", ".jpeg", ".png", ".gif", ".webp"}

IsMarkdownName(name) == Lower(SplitExt(name)) = ".md"

IsImageName(name) == Lower(SplitExt(name)) \in IMAGE_EXTENSIONS

Basename(p) == p[Len(p)]

Dirname(p) == SubSeq(p, 1, Len(p) - 1)

Join(p, name) == Append(p, name)

\* the proper, non-root prefixes of p followed by p itself, shortest first
Ancestors(p) == {SubSeq(p, 1, k) : k \in 1..(Len(p) - 1)}

IsPrefix(p, q) == Len(p) <= Len(q) /\ SubSeq(q, 1, Len(p)) = p

\* ------------------------------------------------------------------------
\* File system
\* ------------------------------------------------------------------------
NoData == <<>>

NoNode == [kind |-> "none", mtime |-> 0, data |-> NoData]

DirNode(t) == [kind |-> "dir", mtime |-> t, data |-> NoData]

FileNode(t, d) == [kind |-> "file", mtime |-> t, data |-> d]

EmptyTree == [p \in Paths |-> NoNode]

\* os.path.exists: true of files and directories alike
Exists(fs, p) == p = Root \/ (p \in Paths /\ fs[p].kind # "none")

IsDir(fs, p) == p = Root \/ (p \in Paths /\ fs[p].kind = "dir")

IsFile(fs, p) == p \in Paths /\ fs[p].kind = "file"

\* os.path.getmtime
GetMtime(fs, p) == fs[p].mtime

\* the non-directory entries os.walk yields
WalkFiles(fs) == {p \in Paths : fs[p].kind = "file"}

\* the directory entries os.walk yields below the root
WalkDirs(fs) == {p \in Paths : fs[p].kind = "dir"}

\* every existing node's parent is a directory
WellFormed(fs) ==
    \A p \in Paths : fs[p].kind # "none" => IsDir(fs, Dirname(p))

\* a change of a directory's entries stamps the directory
Touch(fs, dirs, t) ==
    [p \in Paths |-> IF p \in dirs /\ fs[p].kind = "dir"
                     THEN [fs[p] EXCEPT !.mtime = t] ELSE fs[p]]

\* ------------------------------------------------------------------------
\* Text: a sequence of items, one per line.  An item is [t, alt, url]:
\*   "text"      a line no pattern matches (alt holds it)
\*   "iframe"    <iframe src="url"></iframe>
\*   "mdimage"   ![alt](url)
\*   "mdlink"    [alt](url)
\*   "line"      url standing alone on its line
\*   "shortcode" {{< youtube url >}}
\*   "blob"      the bytes of an image file (alt names them)
\* A url is a sequence of tokens; a token holds no delimiter character of
\* the patterns unless it is that delimiter.
\* ------------------------------------------------------------------------
Item(t, alt, url) == [t |-> t, alt |-> alt, url |-> url]

Shortcode(vid) == Item("shortcode", "", vid)

Schemes == {"https://", "http://"}

Whitespace == {" "}

\* the longest run of tokens from position i on that avoids stop
RECURSIVE Run(_, _, _)
Run(u, i, stop) ==
    IF i > Len(u) \/ u[i] \in stop THEN <<>>
    ELSE <<u[i]>> \o Run(u, i + 1, stop)

\* str.strip(chars)
RECURSIVE StripTokens(_, _)
StripTokens(u, chars) ==
    IF u = <<>> THEN u
    ELSE IF u[1] \in chars THEN StripTokens(Tail(u), chars)
    ELSE IF u[Len(u)] \in chars THEN StripTokens(SubSeq(u, 1, Len(u) - 1), chars)
    ELSE u

\* re.search(pat + '([^stop]+)', u).group(1), <<>> when there is no match
SearchAfter(u, pats, stop) ==
    LET hits == {i \in 1..Len(u) :
                   \E pat \in pats :
                      /\ i + Len(pat) <= Len(u)
                      /\ SubSeq(u, i, i + Len(pat) - 1) = pat
                      /\ u[i + Len(pat)] \notin stop}
    IN IF hits = {} THEN <<>>
       ELSE LET i == CHOOSE j \in hits : \A k \in hits : j <= k
                pat == CHOOSE q \in pats :
                          i + Len(q) <= Len(u) /\ SubSeq(u, i, i + Len(q) - 1) = q
            IN Run(u, i + Len(pat), stop)

\* the three tries with the short form tried before the query parameter
extract_youtube_id_short_first(url) ==
    IF url = <<>> THEN <<>>
    ELSE LET u == StripTokens(StripTokens(url, Whitespace), {"<", ">"})
             byV == SearchAfter(u, {<<"?", "v=">>, <<"&", "v=">>}, {"&"} \cup Whitespace)
             byShort == SearchAfter(u, {<<"youtu.be", "/">>},
                                    {"?", "&", "/"} \cup Whitespace)
             byEmbed == SearchAfter(u, {<<"youtube.com", "/", "embed", "/">>},
                                    {"?", "&", "/"} \cup Whitespace)
         IN IF byShort # <<>> THEN byShort
            ELSE IF byV # <<>> THEN byV
            ELSE byEmbed

extract_youtube_id(url) ==
    IF url = <<>> THEN <<>>
    ELSE LET u == StripTokens(StripTokens(url, Whitespace), {"<", ">"})
             byV == SearchAfter(u, {<<"?", "v=">>, <<"&", "v=">>}, {"&"} \cup Whitespace)
             byShort == SearchAfter(u, {<<"youtu.be", "/">>},
                                    {"?", "&", "/"} \cup Whitespace)
             byEmbed == SearchAfter(u, {<<"youtube.com", "/", "embed", "/">>},
                                    {"?", "&", "/"} \cup Whitespace)
         IN IF byV # <<>> THEN byV
            ELSE IF byShort # <<>> THEN byShort
            ELSE byEmbed

\* https?://[^\)]+
IsAbsoluteUrl(url) == Len(url) >= 2 /\ url[1] \in Schemes

iframe_repl(item) ==
    LET vid == extract_youtube_id(StripTokens(item.url, Whitespace))
    IN IF item.t = "iframe" /\ item.url # <<>> /\ vid # <<>>
       THEN Shortcode(vid) ELSE item

\* the items the pattern of a pass matches: \[.*?\]\(...\) also matches the
\* bracket part of an image, behind its "!"
MdPatternMatches(form, item) ==
    IF form = "mdimage" THEN item.t = "mdimage" ELSE item.t \in {"mdlink", "mdimage"}

\* the replacement of the match; a "!" the pattern did not take stays in
\* front of the shortcode
md_link_repl(form, item) ==
    LET vid == extract_youtube_id(StripTokens(item.url, Whitespace))
    IN IF MdPatternMatches(form, item) /\ IsAbsoluteUrl(item.url) /\ vid # <<>>
       THEN (IF form = item.t THEN Shortcode(vid) ELSE Item("shortcode", "!", vid))
       ELSE item

\* the bare-URL pattern: scheme, optional www., then one of three shapes
\* running to the end of the line
BareUrlMatches(url) ==
    /\ Len(url) >= 2
    /\ url[1] \in Schemes
    /\ LET r == IF url[2] = "www." THEN SubSeq(url, 3, Len(url)) ELSE Tail(url)
           tailOk(pre, stop) ==
               /\ Len(r) > Len(pre)
               /\ SubSeq(r, 1, Len(pre)) = pre
               /\ \A i \in (Len(pre) + 1)..Len(r) : r[i] \notin stop
       IN \/ tailOk(<<"youtube.com", "/", "watch", "?", "v=">>, {"&"} \cup Whitespace)
          \/ tailOk(<<"youtu.be", "/">>, {">"} \cup Whitespace)
          \/ tailOk(<<"youtube.com", "/", "embed", "/">>, {">"} \cup Whitespace)

bare_url_repl(item) ==
    LET vid == extract_youtube_id(StripTokens(StripTokens(item.url, Whitespace), {"<", ">"}))
    IN IF item.t = "line" /\ BareUrlMatches(item.url) /\ vid # <<>>
       THEN Shortcode(vid) ELSE item

convert_youtube_embeds(content) ==
    LET c1 == [i \in 1..Len(content) |-> iframe_repl(content[i])]
        c2 == [i \in 1..Len(c1) |-> md_link_repl("mdimage", c1[i])]
        c3 == [i \in 1..Len(c2) |-> md_link_repl("mdlink", c2[i])]
    IN [i \in 1..Len(c3) |-> bare_url_repl(c3[i])]

\* ------------------------------------------------------------------------
\* Link pass: IMAGE_LINK_PATTERN and process_markdown_file.repl
\* ------------------------------------------------------------------------
\* the one file the model knows outside the source root, SOURCE/../p.JPG
OutsidePath == <<"..", "p.JPG">>

Blob(tag, p) == <<Item("blob", tag, p)>>

OutsideNode == FileNode(1, Blob("outside", OutsidePath))

\* the path components of a reference, "/" tokens dropped
Segments(ref) == SelectSeq(ref, LAMBDA tok : tok # "/")

\* os.path.basename of a reference
RefBasename(ref) == IF ref[Len(ref)] = "/" THEN "" ELSE ref[Len(ref)]

\* str.replace(" ", "%20") on a name
EncodeSpaces(name) == IF name = "p q.JPG" THEN "p%20q.JPG" ELSE name

\* \[([^]]+)\]\(([^)]+\.(?:jpg|jpeg|png|gif|webp))\), re.IGNORECASE
ImageLinkMatches(item) ==
    /\ item.t \in {"mdlink", "mdimage"}
    /\ item.alt # ""
    /\ item.url # <<>>
    /\ IsImageName(RefBasename(item.url))

\* os.path.join(source_dir, image_ref) looked up segment by segment:
\* [st |-> "in", p |-> path in the source] | [st |-> "out", p |-> path from
\* the parent of the source root] | [st |-> "missing"]
RECURSIVE Lookup(_, _, _)
Lookup(fs, cur, segs) ==
    IF cur.st = "missing" \/ segs = <<>> THEN cur
    ELSE LET seg == Head(segs)
             next ==
                 IF cur.st = "out" THEN [st |-> "out", p |-> Append(cur.p, seg)]
                 ELSE IF ~IsDir(fs, cur.p) THEN [st |-> "missing", p |-> <<>>]
                 ELSE IF seg = ".."
                      THEN IF cur.p = Root THEN [st |-> "out", p |-> <<"..">>]
                           ELSE [st |-> "in", p |-> Dirname(cur.p)]
                 ELSE IF Join(cur.p, seg) \in Paths /\ Exists(fs, Join(cur.p, seg))
                      THEN [st |-> "in", p |-> Join(cur.p, seg)]
                 ELSE [st |-> "missing", p |-> <<>>]
         IN Lookup(fs, next, Tail(segs))

\* the node at image_source_path, NoNode when os.path.exists is false
SourceOfRef(fs, source_dir, ref) ==
    IF ref[1] = "/" THEN NoNode
    ELSE LET r == Lookup(fs, [st |-> "in", p |-> source_dir], Segments(ref))
         IN IF r.st = "in" THEN (IF r.p = Root THEN DirNode(0) ELSE fs[r.p])
            ELSE IF r.st = "out" /\ r.p = OutsidePath THEN OutsideNode
            ELSE NoNode

\* the rule of all three copy sites, with the comparison made non-strict
ShouldCopyOrEqual(srcNode, dstNode) ==
    dstNode.kind = "none" \/ srcNode.mtime >= dstNode.mtime

\* the rule of all three copy sites
ShouldCopy(srcNode, dstNode) ==
    dstNode.kind = "none" \/ srcNode.mtime > dstNode.mtime

\* where shutil.copy2(src, dst) writes: into dst when dst is a directory
CopyTarget(fs, dst, base) == IF IsDir(fs, dst) THEN Join(dst, base) ELSE dst

\* shutil.copy2 raises when the source or the target is a directory
CopyFails(fs, srcNode, dst, base) ==
    \/ srcNode.kind # "file"
    \/ CopyTarget(fs, dst, base) \notin Paths
    \/ IsDir(fs, CopyTarget(fs, dst, base))

\* shutil.copy2: data and mtime of the source; a new entry stamps its directory
Copy2(fs, srcNode, dst, base, t) ==
    LET tgt == CopyTarget(fs, dst, base)
        new == [fs EXCEPT ![tgt] = FileNode(srcNode.mtime, srcNode.data)]
    IN IF fs[tgt].kind = "none" THEN Touch(new, {Dirname(tgt)}, t) ELSE new

\* the rewritten link: [alt](/images/<basename with spaces encoded>)
RewrittenLink(item) ==
    Item(item.t, item.alt, <<"/", "images", "/", EncodeSpaces(RefBasename(item.url))>>)

\* what the link pass has done so far: the text it has rebuilt, the images
\* directory, the basenames copied, whether a copy raised, the copy decisions
NoLinks(imgs) ==
    [text |-> <<>>, images |-> imgs, copied |-> {}, failed |-> FALSE, warned |-> FALSE,
     seen |-> {}]

\* an item the pattern does not match
Kept(out, imgs) ==
    [out |-> out, images |-> imgs, copied |-> {}, failed |-> FALSE, warned |-> FALSE,
     seen |-> {}]

\* repl for a match whose image is not in the source: the warning, no copy
Missing(out, imgs) ==
    [out |-> out, images |-> imgs, copied |-> {}, failed |-> FALSE, warned |-> TRUE,
     seen |-> {}]

\* repl for a match whose image srcNode exists in the source; dstNode is what
\* the images directory holds under its basename
replCopy(item, imgs, srcNode, base, dstNode, t, failCopy) ==
    LET want == ShouldCopy(srcNode, dstNode)
        cpFails == want /\ (failCopy \/ CopyFails(imgs, srcNode, <<base>>, base))
    IN [out |-> RewrittenLink(item),
        images |-> IF want /\ ~cpFails THEN Copy2(imgs, srcNode, <<base>>, base, t) ELSE imgs,
        copied |-> IF want /\ ~cpFails THEN {base} ELSE {},
        failed |-> cpFails,
        warned |-> FALSE,
        seen |-> {[site |-> "asset", s |-> srcNode.mtime, dk |-> dstNode.kind,
                   d |-> dstNode.mtime, tried |-> (want /\ ~cpFails) \/ cpFails,
                   ok |-> want /\ ~cpFails]}]

\* repl with the link of a missing image returned as it was
repl_keep_missing(item, imgs, fs, source_dir, t, failCopy) ==
    IF SourceOfRef(fs, source_dir, item.url).kind = "none"
    THEN Missing(item, imgs)
    ELSE replCopy(item, imgs, SourceOfRef(fs, source_dir, item.url), RefBasename(item.url),
                  IF <<RefBasename(item.url)>> \in Paths
                  THEN imgs[<<RefBasename(item.url)>>] ELSE NoNode,
                  t, failCopy)

\* repl for one match of IMAGE_LINK_PATTERN
repl(item, imgs, fs, source_dir, t, failCopy) ==
    IF SourceOfRef(fs, source_dir, item.url).kind = "none"
    THEN Missing(RewrittenLink(item), imgs)
    ELSE replCopy(item, imgs, SourceOfRef(fs, source_dir, item.url), RefBasename(item.url),
                  IF <<RefBasename(item.url)>> \in Paths
                  THEN imgs[<<RefBasename(item.url)>>] ELSE NoNode,
                  t, failCopy)

\* the pass after one more item
Merge(acc, r) ==
    [text |-> Append(acc.text, r.out),
     images |-> r.images,
     copied |-> acc.copied \cup r.copied,
     failed |-> acc.failed \/ r.failed,
     warned |-> acc.warned \/ r.warned,
     seen |-> acc.seen \cup r.seen]

\* re.sub(IMAGE_LINK_PATTERN, repl, content) from item i on, threading the
\* images directory through the matches.  failCopy makes every attempted
\* asset copy raise.
RECURSIVE LinkPass(_, _, _, _, _, _, _)
LinkPass(content, i, acc, fs, source_dir, t, failCopy) ==
    IF i > Len(content) THEN acc
    ELSE LinkPass(content, i + 1,
                  Merge(acc, IF ImageLinkMatches(content[i])
                             THEN repl(content[i], acc.images, fs, source_dir, t, failCopy)
                             ELSE Kept(content[i], acc.images)),
                  fs, source_dir, t, failCopy)

\* ------------------------------------------------------------------------
\* Initial trees
\* ------------------------------------------------------------------------
Times == 1..MaxTime

VideoUrl == <<"https://", "youtu.be", "/", "ID1">>

\* the texts a source document may hold
DocTexts ==
    { <<Item("text", "hello", <<>>)>>,
      <<Item("mdlink", "pic", <<"p.JPG">>)>>,
      <<Item("mdlink", "clip", VideoUrl)>>,
      <<Item("mdlink", "sub", <<"d", "/", "p.JPG">>)>>,
      <<Item("mdlink", "out", <<"..", "/", "p.JPG">>)>>,
      <<Item("mdlink", "gone", <<"p q.JPG">>), Item("mdlink", "pic", <<"p.JPG">>)>> }

OldText == <<Item("text", "old", <<>>)>>

\* sets of n paths closed under Dirname
Shapes(n) ==
    {S \in SUBSET Paths :
        /\ Cardinality(S) = n
        /\ \A p \in S : Len(p) > 1 => Dirname(p) \in S}

\* the kinds a path may have in a tree of shape S: a parent is a directory,
\* and the universe has no room below a directory of depth two
KindsAt(S, p) ==
    IF \E q \in S : q # p /\ IsPrefix(p, q) THEN {"dir"}
    ELSE IF Len(p) = 1 THEN {"file", "dir"}
    ELSE IF Basename(p) = "d" THEN {"dir"}
    ELSE {"file"}

\* the nodes a source path may hold
SourceNodes(S, p) ==
    {n \in [kind : KindsAt(S, p), mtime : Times, data : DocTexts \cup {NoData, Blob("src", p)}] :
        /\ n.kind = "dir" => n.data = NoData /\ n.mtime = 1
        /\ n.kind = "file" /\ IsMarkdownName(Basename(p)) => n.data \in DocTexts
        /\ n.kind = "file" /\ IsImageName(Basename(p)) => n.data = Blob("src", p)
        /\ n.kind = "file" /\ ~IsMarkdownName(Basename(p)) /\ ~IsImageName(Basename(p))
              => n.data = NoData /\ n.mtime = 1}

\* the nodes a destination path may hold
DestNodes(S, p) ==
    {n \in [kind : KindsAt(S, p), mtime : Times, data : {OldText, NoData, Blob("old", p)}] :
        /\ n.kind = "dir" => n.data = NoData
        /\ n.kind = "dir" /\ Basename(p) = "d" => n.mtime = 1
        /\ n.kind = "file" /\ IsMarkdownName(Basename(p)) => n.data = OldText
        /\ n.kind = "file" /\ IsImageName(Basename(p)) => n.data = Blob("old", p)
        /\ n.kind = "file" /\ ~IsMarkdownName(Basename(p)) /\ ~IsImageName(Basename(p))
              => n.data = NoData /\ n.mtime = 1}

\* every tree of shape S, filled path by path
RECURSIVE Fill(_, _, _, _)
Fill(fs, rest, S, isSource) ==
    IF rest = {} THEN {fs}
    ELSE LET p == CHOOSE x \in rest : TRUE
             nodes == IF isSource THEN SourceNodes(S, p) ELSE DestNodes(S, p)
         IN UNION {Fill([fs EXCEPT ![p] = n], rest \ {p}, S, isSource) : n \in nodes}

\* the source trees, the content trees and the images directories (entries
\* at depth one only) of n nodes
SourceTrees(n) == UNION {Fill(EmptyTree, S, S, TRUE) : S \in Shapes(n)}

DestTrees(n) == UNION {Fill(EmptyTree, S, S, FALSE) : S \in Shapes(n)}

ImageTrees(n) ==
    UNION {Fill(EmptyTree, S, S, FALSE) : S \in {T \in Shapes(n) : \A p \in T : Len(p) = 1}}

\* ------------------------------------------------------------------------
\* State
\* ------------------------------------------------------------------------
VARIABLES
    src,        \* the tree under SOURCE_POSTS_DIR
    content,    \* the tree under DEST_CONTENT_DIR
    images,     \* the tree under DEST_IMAGES_DIR
    roots,      \* which of the three configured directories exist
    pc,         \* where main is
    todo,       \* the entries the current walk has still to yield
    now,        \* the clock that stamps writes
    run,        \* the number of the current invocation of main
    fails,      \* file operations that have raised so far (capped)
    ops,        \* the kinds of file operation this run has performed
    seen,       \* the copy decisions of the last step
    edited,     \* the source paths changed since the last run ended
    hurt,       \* the documents copied whose rewrite was abandoned since
    assets,     \* the files of the images root this run's link pass has copied
    vin,        \* a text handed to convert_youtube_embeds
    vout        \* what convert_youtube_embeds returned for it

fsVars == <<src, content, images, roots, pc, todo, now, run, fails, ops, seen, edited, hurt,
           assets>>

textVars == <<vin, vout>>

vars == <<fsVars, textVars>>

MarkdownFiles(fs) == {p \in WalkFiles(fs) : IsMarkdownName(Basename(p))}

ImageFiles(fs) == {p \in WalkFiles(fs) : IsImageName(Basename(p))}

Min(a, b) == IF a < b THEN a ELSE b

Bump(n, raised) == IF raised THEN Min(n + 1, MaxFail) ELSE n

Init ==
    /\ roots \in [source : BOOLEAN, content : BOOLEAN, images : BOOLEAN]
    /\ \E i \in 0..MaxNodes : \E j \in 0..(MaxNodes - i) : \E k \in 0..(MaxNodes - i - j) :
          /\ ~roots.source => i = 0
          /\ ~roots.content => j = 0
          /\ ~roots.images => k = 0
          /\ src \in SourceTrees(i)
          /\ content \in DestTrees(j)
          /\ images \in ImageTrees(k)
    /\ pc = "idle"
    /\ todo = {}
    /\ now \in (MaxTime - 1)..MaxTime
    /\ run = 1
    /\ fails = 0
    /\ ops = {}
    /\ seen = {}
    /\ edited = {}
    /\ hurt = {}
    /\ assets = {}
    /\ vin = <<>>
    /\ vout = <<>>

\* ------------------------------------------------------------------------
\* main
\* ------------------------------------------------------------------------
\* os.path.isdir(SOURCE_POSTS_DIR)
SourceIsDirAlways == TRUE

SourceIsDir == roots.source

\* main up to the first phase; f makes a needed os.makedirs raise
Start(f) ==
    /\ pc = "idle"
    /\ f => fails < MaxFail /\ SourceIsDir /\ ~(roots.content /\ roots.images)
    /\ IF ~SourceIsDir
       THEN /\ pc' = "nosrc"
            /\ UNCHANGED <<roots, todo, ops, fails>>
       ELSE IF f
       THEN /\ pc' = "crashed"
            /\ fails' = Bump(fails, TRUE)
            /\ UNCHANGED <<roots, todo, ops>>
       ELSE /\ pc' = "sync_md"
            /\ roots' = [roots EXCEPT !.content = TRUE, !.images = TRUE]
            /\ ops' = IF roots.content /\ roots.images THEN ops ELSE ops \cup {"mkdir"}
            /\ todo' = MarkdownFiles(src)
            /\ UNCHANGED fails
    /\ seen' = {}
    /\ UNCHANGED <<src, content, images, now, run, edited>>
    /\ UNCHANGED <<textVars, hurt, assets>>

\* os.makedirs(os.path.dirname(dest_file), exist_ok=True): the missing
\* ancestors become directories
MakeDirs(fs, missing, t) ==
    Touch([q \in Paths |-> IF q \in missing THEN DirNode(t) ELSE fs[q]],
          {Dirname(q) : q \in missing}, t)

\* process_markdown_file is called with every file whose copy did not raise,
\* copied or not
ProcessInvokedUnlessRaised(want, cpFails) == ~cpFails

\* process_markdown_file is called after a copy that was made and did not
\* raise: the call is inside the if, behind the try whose handler continues
ProcessInvoked(want, cpFails) == want /\ ~cpFails

\* one iteration of the loops of sync_markdown_files, on the document p;
\* f names the operation that raises, if any.  The intermediate values are
\* bound one after another, in the order the code computes them.
SyncMarkdown(p, f) ==
    /\ pc = "sync_md"
    /\ p \in todo
    /\ f # "none" => fails < MaxFail
    /\ \E blocked \in {\E q \in Ancestors(p) : content[q].kind = "file"} :
       \E missing \in {{q \in Ancestors(p) : content[q].kind = "none"}} :
       \E c1 \in {MakeDirs(content, missing, now)} :
       \E want \in {ShouldCopy(src[p], c1[p])} :
       \E cpFails \in {want /\ (f = "copy" \/ CopyFails(c1, src[p], p, Basename(p)))} :
       \E copied \in {want /\ ~cpFails} :
       \E c2 \in {IF copied THEN Copy2(c1, src[p], p, Basename(p), now) ELSE c1} :
       \E invoked \in {ProcessInvoked(want, cpFails)} :
       \E rdFails \in {invoked /\ (f = "read" \/ c2[p].kind # "file")} :
       \E rewrite \in {invoked /\ ~rdFails} :
       \E text \in {IF rewrite THEN convert_youtube_embeds(c2[p].data) ELSE <<>>} :
       \E lp \in {LinkPass(text, 1, NoLinks(images), src, Dirname(p), now, f = "asset")} :
       \E changed \in {rewrite /\ lp.text # text} :
       \E wrFails \in {changed /\ f = "write"} :
          /\ f = "mkdir" => missing # {} /\ ~blocked
          /\ f = "copy" => want /\ ~blocked
          /\ f = "read" => invoked /\ ~blocked
          /\ f = "asset" => rewrite /\ lp.failed /\ ~blocked
          /\ f = "write" => changed /\ ~blocked
          /\ IF blocked \/ f = "mkdir"
             THEN /\ pc' = "crashed"
                  /\ fails' = Bump(fails, TRUE)
                  /\ seen' = {}
                  /\ UNCHANGED <<content, images, todo, ops, hurt, assets>>
             ELSE /\ content' = IF changed /\ ~wrFails
                                THEN [c2 EXCEPT ![p] = FileNode(now, lp.text)] ELSE c2
                  /\ images' = IF rewrite THEN lp.images ELSE images
                  /\ todo' = todo \ {p}
                  /\ fails' = Bump(fails, cpFails \/ rdFails \/ (rewrite /\ lp.failed) \/ wrFails)
                  /\ ops' = ops \cup (IF missing # {} THEN {"mkdir"} ELSE {})
                                \cup (IF copied THEN {"copy_md"} ELSE {})
                                \cup (IF invoked THEN {"process"} ELSE {})
                                \cup (IF rewrite /\ lp.copied # {} THEN {"copy_asset"} ELSE {})
                                \cup (IF rewrite /\ lp.warned THEN {"warn"} ELSE {})
                                \cup (IF cpFails \/ rdFails \/ (rewrite /\ lp.failed) \/ wrFails
                                      THEN {"error"} ELSE {})
                                \cup (IF changed /\ ~wrFails THEN {"write"} ELSE {})
                  /\ seen' = {[site |-> "md", s |-> src[p].mtime, dk |-> c1[p].kind,
                               d |-> c1[p].mtime, tried |-> copied \/ cpFails,
                               ok |-> copied]}
                             \cup (IF rewrite THEN lp.seen ELSE {})
                  /\ assets' = IF rewrite
                               THEN assets \cup {<<b>> : b \in {c \in lp.copied :
                                                                 IsFile(lp.images, <<c>>)}}
                               ELSE assets
                  /\ hurt' = IF invoked /\ (rdFails \/ wrFails) THEN hurt \cup {p}
                             ELSE IF invoked THEN hurt \ {p}
                             ELSE hurt
                  /\ pc' = pc
    /\ UNCHANGED <<src, roots, now, run, edited>>
    /\ UNCHANGED textVars

\* sync_markdown_files returns, sync_image_files begins its walk
EndSyncMarkdown ==
    /\ pc = "sync_md"
    /\ todo = {}
    /\ pc' = "sync_img"
    /\ todo' = ImageFiles(src)
    /\ seen' = {}
    /\ UNCHANGED <<src, content, images, roots, now, run, fails, ops, edited>>
    /\ UNCHANGED <<textVars, hurt, assets>>

\* one iteration of the loops of sync_image_files, on the image p
SyncImage(p, f) ==
    /\ pc = "sync_img"
    /\ p \in todo
    /\ f => fails < MaxFail
    /\ LET dst == <<Basename(p)>>
           srcNode == src[p]
           want == ShouldCopy(srcNode, images[dst])
           cpFails == want /\ (f \/ CopyFails(images, srcNode, dst, Basename(p)))
           copied == want /\ ~cpFails
       IN /\ f => want
          /\ images' = IF copied
                       THEN Copy2(images, srcNode, dst, Basename(p), now) ELSE images
          /\ fails' = Bump(fails, cpFails)
          /\ ops' = ops \cup (IF copied THEN {"copy_img"} ELSE {})
                        \cup (IF cpFails THEN {"error"} ELSE {})
          /\ seen' = {[site |-> "img", s |-> srcNode.mtime, dk |-> images[dst].kind,
                       d |-> images[dst].mtime, tried |-> copied \/ cpFails,
                       ok |-> copied]}
    /\ todo' = todo \ {p}
    /\ UNCHANGED <<src, content, roots, pc, now, run, edited>>
    /\ UNCHANGED <<textVars, hurt, assets>>

\* sync_image_files returns, remove_deleted_markdown begins its bottom-up walk
EndSyncImage ==
    /\ pc = "sync_img"
    /\ todo = {}
    /\ pc' = "rm_md"
    /\ todo' = WalkDirs(content) \cup {Root}
    /\ seen' = {}
    /\ UNCHANGED <<src, content, images, roots, now, run, fails, ops, edited>>
    /\ UNCHANGED <<textVars, hurt, assets>>

Children(fs, dir) == {p \in Paths : Dirname(p) = dir /\ fs[p].kind # "none"}

\* shutil.rmtree(dir): the directory and all below it
RmTree(fs, dirs) ==
    [p \in Paths |-> IF \E dir \in dirs : IsPrefix(dir, p) THEN NoNode ELSE fs[p]]

\* os.remove(p)
Remove(fs, ps) == [p \in Paths |-> IF p \in ps THEN NoNode ELSE fs[p]]

\* the files of a visit with the test for the source file left out
AllMarkdownFiles(dir) ==
    {p \in Children(content, dir) :
        content[p].kind = "file" /\ IsMarkdownName(Basename(p))}

\* what one visit of remove_deleted_markdown's walk deletes in directory dir
OrphanFiles(dir) ==
    {p \in Children(content, dir) :
        /\ content[p].kind = "file"
        /\ IsMarkdownName(Basename(p))
        /\ ~Exists(src, p)}

OrphanDirs(dir) ==
    {p \in Children(content, dir) : content[p].kind = "dir" /\ ~Exists(src, p)}

\* the body of remove_deleted_markdown's loop for the directory dir, which
\* the bottom-up walk yields once every directory below it has been yielded;
\* f is the entry whose removal raises (Root: none)
RemoveMarkdown(dir, f) ==
    /\ pc = "rm_md"
    /\ dir \in todo
    /\ \A q \in todo : q = dir \/ ~IsPrefix(dir, q)
    /\ f # Root => fails < MaxFail /\ f \in OrphanFiles(dir) \cup OrphanDirs(dir)
    /\ LET files == OrphanFiles(dir) \ {f}
           dirs == OrphanDirs(dir) \ {f}
           gone == RmTree(Remove(content, files), dirs)
       IN /\ content' = IF files \cup dirs = {} THEN content ELSE Touch(gone, {dir}, now)
          /\ ops' = ops \cup (IF files # {} THEN {"delete"} ELSE {})
                        \cup (IF dirs # {} THEN {"rmtree"} ELSE {})
                        \cup (IF f # Root THEN {"error"} ELSE {})
    /\ fails' = Bump(fails, f # Root)
    /\ todo' = todo \ {dir}
    /\ seen' = {}
    /\ UNCHANGED <<src, images, roots, pc, now, run, edited>>
    /\ UNCHANGED <<textVars, hurt, assets>>

\* remove_deleted_markdown returns; remove_deleted_images collects the source
\* basenames and lists the images directory
EndRemoveMarkdown ==
    /\ pc = "rm_md"
    /\ todo = {}
    /\ pc' = "rm_img"
    /\ todo' = IF roots.images THEN Children(images, Root) ELSE {}
    /\ seen' = {}
    /\ UNCHANGED <<src, content, images, roots, now, run, fails, ops, edited>>
    /\ UNCHANGED <<textVars, hurt, assets>>

\* source_images of remove_deleted_images
SourceImages == {Basename(p) : p \in ImageFiles(src)}

\* one iteration of remove_deleted_images' loop over the listing
RemoveImage(p, f) ==
    /\ pc = "rm_img"
    /\ p \in todo
    /\ f => fails < MaxFail /\ Basename(p) \notin SourceImages /\ images[p].kind = "file"
    /\ LET orphan == Basename(p) \notin SourceImages
           rmFails == orphan /\ (f \/ images[p].kind # "file")
       IN /\ images' = IF orphan /\ ~rmFails THEN Remove(images, {p}) ELSE images
          /\ ops' = ops \cup (IF orphan /\ ~rmFails THEN {"delete"} ELSE {})
                        \cup (IF rmFails THEN {"error"} ELSE {})
          /\ fails' = Bump(fails, rmFails)
    /\ todo' = todo \ {p}
    /\ seen' = {}
    /\ UNCHANGED <<src, content, roots, pc, now, run, edited>>
    /\ UNCHANGED <<textVars, hurt, assets>>

\* remove_deleted_images returns and main prints its last line
Finish ==
    /\ pc = "rm_img"
    /\ todo = {}
    /\ pc' = "done"
    /\ seen' = {}
    /\ UNCHANGED <<src, content, images, roots, todo, now, run, fails, ops, edited>>
    /\ UNCHANGED <<textVars, hurt, assets>>

\* ------------------------------------------------------------------------
\* Between two invocations
\* ------------------------------------------------------------------------
\* the author deletes one image from the source before main is invoked again
DeleteSourceImage(p) ==
    /\ pc = "idle"
    /\ run > 1
    /\ edited = {}
    /\ p \in ImageFiles(src)
    /\ src' = Touch(Remove(src, {p}), {Dirname(p)}, now)
    /\ edited' = {p}
    /\ seen' = {}
    /\ UNCHANGED <<content, images, roots, pc, todo, now, run, fails, ops>>
    /\ UNCHANGED <<textVars, hurt, assets>>

\* main is invoked again, later
Rerun ==
    /\ pc = "done"
    /\ run < MaxRuns
    /\ pc' = "idle"
    /\ run' = run + 1
    /\ now' = now + 1
    /\ ops' = {}
    /\ assets' = {}
    /\ seen' = {}
    /\ UNCHANGED <<src, content, images, roots, todo, fails, edited>>
    /\ UNCHANGED <<textVars, hurt>>

Next ==
    \/ \E f \in BOOLEAN : Start(f)
    \/ \E p \in Paths, f \in {"none", "mkdir", "copy", "read", "asset", "write"} :
          SyncMarkdown(p, f)
    \/ EndSyncMarkdown
    \/ \E p \in Paths, f \in BOOLEAN : SyncImage(p, f)
    \/ EndSyncImage
    \/ \E dir \in Paths \cup {Root}, f \in Paths \cup {Root} : RemoveMarkdown(dir, f)
    \/ EndRemoveMarkdown
    \/ \E p \in Paths, f \in BOOLEAN : RemoveImage(p, f)
    \/ Finish
    \/ \E p \in Paths : DeleteSourceImage(p)
    \/ Rerun

Spec == Init /\ [][Next]_vars

\* the runs that start from a destination no one else has written to
CleanInit == Init /\ content = EmptyTree /\ images = EmptyTree

CleanSpec == CleanInit /\ [][Next]_vars

\* ------------------------------------------------------------------------
\* convert_youtube_embeds on its own: every text of the bounded universe
\* ------------------------------------------------------------------------
MaxItems == 1

Hosts == {"youtube.com", "youtu.be", "example.com"}

YouTubeHosts == {"youtube.com", "youtu.be"}

UrlPaths == {<<>>, <<"/", "watch">>, <<"/", "embed", "/", "ID1">>, <<"/", "ID1">>}

UrlQueries ==
    {<<>>, <<"?", "v=", "ID2">>, <<"?", "t=", "9">>, <<"?", "t=", "9", "&", "v=", "ID2">>}

Urls ==
    {<<"https://">> \o w \o <<h>> \o path \o q :
        w \in {<<>>, <<"www.">>}, h \in Hosts, path \in UrlPaths, q \in UrlQueries}

VideoForms == {"iframe", "mdimage", "mdlink", "line"}

VideoItems == {Item(t, IF t \in {"mdimage", "mdlink"} THEN "x" ELSE "", u) :
                 t \in VideoForms, u \in Urls}

VideoTexts == UNION {[1..n -> VideoItems] : n \in 1..MaxItems}

\* the host of an absolute URL
HostOf(url) == IF url[2] = "www." THEN url[3] ELSE url[2]

VideoInit ==
    /\ vin \in VideoTexts
    /\ vout = <<>>
    /\ src = EmptyTree /\ content = EmptyTree /\ images = EmptyTree
    /\ roots = [source |-> FALSE, content |-> FALSE, images |-> FALSE]
    /\ pc = "text"
    /\ todo = {} /\ now = MaxTime /\ run = 1 /\ fails = 0
    /\ ops = {} /\ seen = {} /\ edited = {} /\ hurt = {} /\ assets = {}

\* content = convert_youtube_embeds(content)
ConvertVideo ==
    /\ pc = "text"
    /\ vout = <<>>
    /\ vout' = convert_youtube_embeds(vin)
    /\ UNCHANGED <<vin, fsVars>>

VideoNext == ConvertVideo

VideoSpec == VideoInit /\ [][VideoNext]_vars

\* ------------------------------------------------------------------------
\* Sanity of the model
\* ------------------------------------------------------------------------
TypeOK ==
    /\ WellFormed(src) /\ WellFormed(content) /\ WellFormed(images)
    /\ pc \in {"idle", "nosrc", "crashed", "sync_md", "sync_img", "rm_md", "rm_img", "done"}
    /\ run \in 1..MaxRuns
    /\ fails \in 0..MaxFail

\* ------------------------------------------------------------------------
\* Claims
\* ------------------------------------------------------------------------
FailureFree == fails = 0

RunComplete == pc = "done"

\* C1: after a full run in which no file operation fails, the relative paths
\* of the Markdown files under the content root are exactly those of the
\* Markdown files under the source root, whatever the destination held.
C1_Mirror ==
    (RunComplete /\ FailureFree) => MarkdownFiles(content) = MarkdownFiles(src)

\* C2: a second run that follows a completed run with no change of the
\* source copies nothing, writes nothing back and deletes nothing (stated
\* for runs in which no file operation fails).
C2_Idempotent ==
    (run = 2 /\ edited = {} /\ FailureFree)
        => ops \cap {"copy_md", "copy_img", "copy_asset", "write", "delete", "rmtree"} = {}

\* C3: no failing file operation, directory creation included, aborts the
\* run: main never ends by an exception that escapes it.
C3_FaultIsolated == pc # "crashed"

\* C4: after a failure-free full run every source image has a file of its
\* basename in the images root; and when a source image was deleted before
\* the run, the images root still has an entry of that basename exactly when
\* another source image shares the basename.
C4_FlatMedia ==
    (RunComplete /\ FailureFree) =>
        /\ \A p \in ImageFiles(src) : IsFile(images, <<Basename(p)>>)
        /\ \A p \in edited : Exists(images, <<Basename(p)>>) <=> Basename(p) \in SourceImages

\* C5: when the source root does not exist, main ends at its message and
\* nothing of the destination changes: no root is created, no file is
\* copied, rewritten or deleted, no phase is entered.
C5_NoSourceNoChange ==
    [][~roots.source =>
          /\ pc' \in {"idle", "nosrc"}
          /\ content' = content /\ images' = images /\ roots' = roots /\ ops' = {}]_vars

C5_Witness ==
    pc = "nosrc" /\ ~roots.images /\ roots.content /\ content # EmptyTree

\* C6: at each of the three copy sites the copy is attempted exactly when
\* nothing exists at the destination path or the source's mtime is strictly
\* greater than the destination's; equal mtimes are not recopied.
C6_CopyRule ==
    \A r \in seen : r.tried <=> (r.dk = "none" \/ r.s > r.d)

C6_Witness ==
    \E r \in seen : r.site = "asset" /\ r.dk = "file" /\ r.s = r.d /\ ~r.tried

\* C7: a step of remove_deleted_markdown never removes a Markdown file whose
\* source file exists nor a directory whose source directory exists, and a
\* step of remove_deleted_images never removes a file whose basename is that
\* of a source image; so what the sync phases put in place for an existing
\* source file is still there when the run ends.
C7_PruneOnlyOrphans ==
    [][/\ pc = "rm_md" =>
            \A p \in Paths :
                (content[p].kind # "none" /\ content'[p].kind = "none") =>
                    /\ ~(content[p].kind = "file" /\ IsMarkdownName(Basename(p))
                            /\ IsFile(src, p))
                    /\ ~(content[p].kind = "dir" /\ IsDir(src, p))
       /\ pc = "rm_img" =>
            \A p \in Paths :
                (images[p].kind # "none" /\ images'[p].kind = "none") =>
                    Basename(p) \notin SourceImages]_vars

C7_Witness ==
    /\ RunComplete
    /\ "delete" \in ops
    /\ \E p \in MarkdownFiles(src) : IsFile(content, p)

\* C8: after one failure-free run no directory is left under the content
\* root whose relative path is not that of a source directory.
C8_OrphanDirsRemoved ==
    (RunComplete /\ FailureFree) => \A p \in WalkDirs(content) : IsDir(src, p)

\* C9: with the source root present a run goes through sync-documents,
\* sync-media, prune-documents, prune-media in this order, each once, and
\* then prints the completion message: from each position main moves only to
\* the next one.
C9_PhaseOrder ==
    [][roots.source =>
          /\ pc = "idle" => pc' = "sync_md"
          /\ pc = "sync_md" => pc' \in {"sync_md", "sync_img"}
          /\ pc = "sync_img" => pc' \in {"sync_img", "rm_md"}
          /\ pc = "rm_md" => pc' \in {"rm_md", "rm_img"}
          /\ pc = "rm_img" => pc' \in {"rm_img", "done"}
          /\ pc = "done" => pc' \in {"done", "idle"}]_vars

\* C10: the video pass returns unchanged every iframe, Markdown image,
\* Markdown link and standalone URL whose host is neither youtube.com nor
\* youtu.be, whatever its path and query.
C10_NonYouTubeUnchanged ==
    vout # <<>> =>
        \A i \in 1..Len(vin) :
            HostOf(vin[i].url) \notin YouTubeHosts => vout[i] = vin[i]

\* the ID a URL of the universe carries, by the three tries in their order:
\* the value of v=, the segment after youtu.be/, the segment after
\* youtube.com/embed/
ExpectedId(url) ==
    LET k == IF url[2] = "www." THEN 3 ELSE 2
        vs == {i \in 1..(Len(url) - 1) : url[i] = "v="}
    IN IF vs # {} THEN <<url[(CHOOSE i \in vs : \A j \in vs : i <= j) + 1]>>
       ELSE IF url[k] = "youtu.be" /\ Len(url) >= k + 2 /\ url[k + 1] = "/"
       THEN <<url[k + 2]>>
       ELSE IF url[k] = "youtube.com" /\ Len(url) >= k + 4
                 /\ SubSeq(url, k + 1, k + 3) = <<"/", "embed", "/">>
       THEN <<url[k + 4]>>
       ELSE <<>>

\* the URLs of exactly the three shapes
CanonicalUrls ==
    {<<"https://">> \o w \o r :
        w \in {<<>>, <<"www.">>},
        r \in {<<"youtube.com", "/", "watch", "?", "v=", "ID2">>,
               <<"youtu.be", "/", "ID1">>,
               <<"youtube.com", "/", "embed", "/", "ID1">>}}

\* C11: each of the four forms that carries a YouTube URL of one of the
\* three shapes becomes the shortcode of its ID, nothing of the construct
\* left over; the ID is the first of v=, youtu.be/ and youtube.com/embed/
\* that is found; a construct from which no ID is extracted is returned
\* unchanged; the image pass runs before the link pass, so no "!" is left.
C11_VideoPass ==
    vout # <<>> =>
        \A i \in 1..Len(vin) :
            HostOf(vin[i].url) \in YouTubeHosts =>
                /\ vin[i].url \in CanonicalUrls => vout[i] = Shortcode(ExpectedId(vin[i].url))
                /\ (vin[i].t # "line" /\ ExpectedId(vin[i].url) # <<>>)
                      => vout[i] = Shortcode(ExpectedId(vin[i].url))
                /\ ExpectedId(vin[i].url) = <<>> => vout[i] = vin[i]
                /\ vout[i] \in {vin[i], Shortcode(ExpectedId(vin[i].url))}

C11_Witness ==
    /\ vout = <<Shortcode(<<"ID2">>)>>
    /\ vin[1].t = "mdimage"
    /\ vin[1].url = <<"https://", "youtu.be", "/", "ID1", "?", "v=", "ID2">>

\* the step of sync_markdown_files that has just copied and rewritten the
\* document p with no operation raising so far
FreshlyRewritten(p) ==
    /\ pc = "sync_md" /\ pc' = "sync_md"
    /\ p \in todo /\ p \notin todo'
    /\ fails' = 0
    /\ \E r \in seen' : r.site = "md" /\ r.tried

\* the link the rewrite makes of [alt](ref)
LinkToImages(it) ==
    [t |-> it.t, alt |-> it.alt,
     url |-> <<"/", "images", "/", EncodeSpaces(RefBasename(it.url))>>]

\* item i of the source document p is [alt](ref) with an image extension and
\* the file ref exists in the document's source directory
AssetPresent(p, i) ==
    /\ src[p].data[i].t = "mdlink"
    /\ IsImageName(RefBasename(src[p].data[i].url))
    /\ SourceOfRef(src, Dirname(p), src[p].data[i].url).kind = "file"

\* C12: when a freshly copied document holds [alt](ref), ref with an image
\* extension and present as a file in the document's source directory, the
\* rewritten destination document holds [alt](/images/<basename, spaces as
\* %20>) in its place and the images root holds a file named basename(ref).
C12_LinkRewritePresent ==
    [][\A p \in Paths :
          FreshlyRewritten(p) =>
             \A i \in 1..Len(src[p].data) :
                AssetPresent(p, i) =>
                   /\ IsFile(content', p)
                   /\ content'[p].data[i] = LinkToImages(src[p].data[i])
                   /\ IsFile(images', <<RefBasename(src[p].data[i].url)>>)]_vars

\* item i of the source document p is [alt](ref) with an image extension and
\* nothing exists at ref in the document's source directory
AssetMissing(p, i) ==
    /\ src[p].data[i].t = "mdlink"
    /\ IsImageName(RefBasename(src[p].data[i].url))
    /\ SourceOfRef(src, Dirname(p), src[p].data[i].url).kind = "none"

\* C13: when a matched reference of a freshly copied document has no file in
\* the source, the warning is logged, the link is rewritten to
\* /images/<basename> all the same, the images root is left as it was unless
\* another reference of the document has its image, every other matched link
\* of the document is rewritten too, and the walk goes on to the next file.
C13_LinkRewriteMissing ==
    [][\A p \in Paths :
          FreshlyRewritten(p) =>
             \A i \in 1..Len(src[p].data) :
                AssetMissing(p, i) =>
                   /\ "warn" \in ops'
                   /\ IsFile(content', p)
                   /\ content'[p].data[i] = LinkToImages(src[p].data[i])
                   /\ (\A j \in 1..Len(src[p].data) : ~AssetPresent(p, j)) => images' = images
                   /\ \A j \in 1..Len(src[p].data) :
                         (AssetPresent(p, j) \/ AssetMissing(p, j))
                            => content'[p].data[j] = LinkToImages(src[p].data[j])
                   /\ todo' = todo \ {p}
                   /\ pc' = "sync_md"]_vars

C13_Witness ==
    /\ pc = "sync_md"
    /\ fails = 0
    /\ "warn" \in ops
    /\ "copy_asset" \notin ops
    /\ images = EmptyTree
    /\ \E p \in MarkdownFiles(content) :
          content[p].data = <<Item("mdlink", "gone", <<"/", "images", "/", "p%20q.JPG">>),
                              Item("mdlink", "pic", <<"/", "images", "/", "p.JPG">>)>>

\* the text of the source document p after the video pass and then the
\* link pass
RewrittenText(p) ==
    LET v == convert_youtube_embeds(src[p].data)
    IN [i \in 1..Len(v) |-> IF ImageLinkMatches(v[i]) THEN LinkToImages(v[i]) ELSE v[i]]

\* C14: a document that sync_markdown_files has freshly copied, no operation
\* raising, holds in the destination its source text transformed by the
\* video pass and then the link pass: the source text itself when neither
\* pass changes it, the converted text also when only the video pass does.
C14_RewrittenCopy ==
    [][\A p \in Paths :
          FreshlyRewritten(p) =>
             IsFile(content', p) /\ content'[p].data = RewrittenText(p)]_vars

\* C15: process_markdown_file runs on a destination document exactly when
\* the same step has copied it successfully: a document whose copy is
\* skipped (the destination exists and is not older) or whose copy raises is
\* not processed, and neither it nor the images root changes in that step.
C15_RewriteOnlyFreshCopies ==
    [][\A p \in Paths :
          (pc = "sync_md" /\ p \in todo /\ p \notin todo') =>
             \A r \in seen' :
                r.site = "md" =>
                   /\ (r.dk # "none" /\ r.s <= r.d) => ~r.ok
                   /\ r.ok => "process" \in ops'
                   /\ ~r.ok => /\ content'[p] = content[p]
                               /\ images' = images
                               /\ ops' \ ops \subseteq {"mkdir", "error"}]_vars

C15_Witness ==
    /\ pc = "sync_md"
    /\ \E r \in seen : r.site = "md" /\ ~r.tried /\ r.s = r.d
    /\ "process" \notin ops
    /\ \E p \in MarkdownFiles(src) :
          /\ p \notin todo
          /\ src[p].data = <<Item("mdlink", "pic", <<"p.JPG">>)>>
          /\ IsFile(src, <<"p.JPG">>)
          /\ IsFile(content, p) /\ content[p].data = OldText
          /\ ~Exists(images, <<"p.JPG">>)

\* C16: when a read or a write of the destination document fails after the
\* document has been copied and before its rewritten text is written back,
\* the next complete run in which nothing fails, the source unchanged,
\* applies the rewrite passes to that document: no document is left
\* awaiting its rewrite.
C16_RewriteRecovered ==
    (RunComplete /\ run = 2 /\ edited = {} /\ "error" \notin ops) => hurt = {}

\* C17: from an empty destination, after runs in which nothing fails, the
\* source images deleted in between or not, every file of the images root
\* has the content of a source image file that exists now and has its
\* basename.
C17_MediaProvenance ==
    (RunComplete /\ FailureFree) =>
        \A q \in Children(images, Root) :
            IsFile(images, q) =>
                \E p \in ImageFiles(src) :
                    Basename(p) = Basename(q) /\ src[p].data = images[q].data

\* C18: a file that the link pass of this run has copied into the images
\* root, whatever the path of its reference, is still a file of the images
\* root when the run completes: remove_deleted_images does not delete it.
C18_AssetsSurvive ==
    RunComplete => \A q \in assets : IsFile(images, q)

====
